---- MODULE Spec2Model ----
(***************************************************************************)
(* Region normalisation and regional aggregation of the India cancer       *)
(* mortality dashboard (src/app.py).                                       *)
(*                                                                         *)
(* One run of main() is modelled: load_data reads the CSV table, the user  *)
(* selects a year, and the dashboard then calls calculate_statistics,      *)
(* create_trend_analysis, generate_insights, create_india_map              *)
(* (prepare_map_data), create_regional_analysis and builds the regional    *)
(* statistics table.  Three of the seven year columns are kept.            *)
(*                                                                         *)
(* Four specifications share the operations and differ in the tables read: *)
(* Spec (up to MaxRows rows, a name of each kind, values in the 2018       *)
(* column), SpecNames (one row, every key of state_mapping and the other   *)
(* names, with blanks around them, values in every year column), SpecYears *)
(* (up to MaxRows rows of two zones, values in the first two year columns) *)
(* and SpecOrder (up to MaxRows + 1 rows, the names matching the split     *)
(* pattern and two others, values in the 2018 column).                     *)
(*                                                                         *)
(* Representation.                                                         *)
(*   - A number cell of the table is <<v>> (present) or <<>> (NaN).        *)
(*   - A region name is a record [na, pre, core, post]: na is TRUE for a   *)
(*     missing name (NaN); otherwise the string is `pre` blanks, the text  *)
(*     `core` (which has no surrounding blanks) and `post` blanks.         *)
(*   - A table is a sequence of rows; every row keeps its pandas index     *)
(*     label idx (the position of the row in the CSV file).                *)
(***************************************************************************)
EXTENDS Integers, Sequences, FiniteSets, TLC

VARIABLES
    csv,            \* rows of the CSV file, as pd.read_csv returns them
    df,             \* the table load_data returns
    pc,             \* position of main()
    selected_year,  \* the year picked in the sidebar
    df_copy,        \* prepare_map_data: df with the State_Mapped column
    map_data,       \* prepare_map_data: the returned table
    stats,          \* calculate_statistics: the returned dict (its 'total')
    yearly_totals,  \* create_trend_analysis: the total of each year column
    yoy_change,     \* create_trend_analysis: the year-over-year changes
    trend_insight,  \* generate_insights: the year-over-year insight
    jk_data,        \* prepare_map_data: the replicated rows (<<>> without a match)
    insight_regions,\* generate_insights: regional_data (zone -> total)
    highest_region, \* generate_insights: the zone reported as highest
    regional_data,  \* create_regional_analysis: rows Region/Deaths
    regional_stats, \* main: rows of the regional statistics table
    error           \* the functions that have raised an exception in this run

vars == <<csv, df, pc, selected_year, stats, yearly_totals, yoy_change,
          trend_insight, df_copy, map_data, jk_data,
          insight_regions, highest_region, regional_data, regional_stats, error>>

(***************************************************************************)
(* Bounds of the model.                                                    *)
(***************************************************************************)
MaxRows == 2        \* rows of the CSV file
MaxDeaths == 1      \* largest value of a cell
MaxPad == 1         \* blanks before / after a raw region name

\* The year columns the model tracks (two of the seven of line 622).
years == {2018, 2019, 2020}

NaN == <<>>
Vals == {NaN} \cup {<<v>> : v \in 0..MaxDeaths}
isna(v) == v = NaN

(***************************************************************************)
(* Region names.                                                           *)
(***************************************************************************)
Str(s) == [na |-> FALSE, pre |-> 0, core |-> s, post |-> 0]
Padded(s, a, b) == [na |-> FALSE, pre |-> a, core |-> s, post |-> b]
NoName == [na |-> TRUE, pre |-> 0, core |-> "", post |-> 0]

\* Keys of the state_mapping dict of prepare_map_data.
state_mapping_keys ==
    {"Andhra Pradesh", "Arunachal Pradesh", "Assam", "Bihar", "Chhattisgarh",
     "Goa", "Gujarat", "Haryana", "Himachal Pradesh", "Jharkhand", "Karnataka",
     "Kerala", "Madhya Pradesh", "Maharashtra", "Manipur", "Meghalaya",
     "Mizoram", "Nagaland", "Orissa", "Punjab", "Rajasthan", "Sikkim",
     "Tamil Nadu", "Telangana", "Tripura", "Uttar Pradesh", "Uttaranchal",
     "West Bengal", "Delhi", "Jammu & Kashmir", "Jammu and Kashmir",
     "Chandigarh", "Dadra & Nagar Haveli", "Daman", "Lakshadweep",
     "Pondicherry", "Andaman & Nicobar Islands"}

\* A table in which the two spellings of Jammu & Kashmir point at each other.
state_mapping_value_swapped(k) ==
    CASE k = "Orissa" -> "Odisha"
      [] k = "Uttaranchal" -> "Uttarakhand"
      [] k = "Jammu & Kashmir" -> "Jammu and Kashmir"
      [] k = "Jammu and Kashmir" -> "Jammu & Kashmir"
      [] k = "Dadra & Nagar Haveli" -> "Dadra and Nagar Haveli and Daman and Diu"
      [] k = "Daman" -> "Dadra and Nagar Haveli and Daman and Diu"
      [] k = "Pondicherry" -> "Puducherry"
      [] k = "Andaman & Nicobar Islands" -> "Andaman & Nicobar"
      [] OTHER -> k

\* Value of a key of state_mapping: the name the GeoJSON uses.
state_mapping_value(k) ==
    CASE k = "Orissa" -> "Odisha"
      [] k = "Uttaranchal" -> "Uttarakhand"
      [] k = "Jammu and Kashmir" -> "Jammu & Kashmir"
      [] k = "Dadra & Nagar Haveli" -> "Dadra and Nagar Haveli and Daman and Diu"
      [] k = "Daman" -> "Dadra and Nagar Haveli and Daman and Diu"
      [] k = "Pondicherry" -> "Puducherry"
      [] k = "Andaman & Nicobar Islands" -> "Andaman & Nicobar"
      [] OTHER -> k

state_mapping == [k \in state_mapping_keys |-> state_mapping_value(k)]

\* Names outside state_mapping that the model feeds in.
OtherCores == {"Unknown Territory", "Total", "Telangana State", "JAMMU"}

\* Series.str.rstrip(): only the blanks at the end go.
str_rstrip(n) == IF n.na THEN n ELSE [n EXCEPT !.post = 0]

\* Series.str.strip(): blanks at both ends go; NaN stays NaN.
str_strip(n) == IF n.na THEN n ELSE [n EXCEPT !.pre = 0, !.post = 0]

\* Series.str.replace('Telangana ', 'Telangana'): every occurrence of the
\* text "Telangana" followed by a blank loses that blank.
str_replace_Telangana(n) ==
    IF n.na THEN n
    ELSE IF n.core = "Telangana State" THEN [n EXCEPT !.core = "TelanganaState"]
    ELSE IF n.core = "Telangana" /\ n.post > 0 THEN [n EXCEPT !.post = n.post - 1]
    ELSE n

\* Series.str.contains('Jammu', case=False, na=False) on one element.
str_contains_Jammu(n) ==
    /\ ~n.na
    /\ n.core \in {"Jammu & Kashmir", "Jammu and Kashmir", "JAMMU",
                   "Jammu & Kashmir (Ladakh area)"}

\* Series.isin(list) on one element: the whole string equals a list entry.
isin(n, S) == ~n.na /\ n.pre = 0 /\ n.post = 0 /\ n.core \in S

(***************************************************************************)
(* Helpers on tables.                                                      *)
(***************************************************************************)
\* A division a / b: the quotient, kept as the pair <<dividend, divisor>>.
Quotient(a, b) == <<a, b>>

RECURSIVE SumSkipNa(_)
\* Series.sum(): NaN cells are skipped, the empty sum is 0.
SumSkipNa(cells) ==
    IF cells = <<>> THEN 0
    ELSE (IF isna(Head(cells)) THEN 0 ELSE Head(cells)[1]) + SumSkipNa(Tail(cells))

Column(rows, y) == [i \in 1..Len(rows) |-> rows[i].vals[y]]

RECURSIVE Filter(_, _)
\* Boolean-mask row selection that keeps order and index labels; keep is the
\* set of positions whose mask is True.
Filter(rows, keep) ==
    IF rows = <<>> THEN <<>>
    ELSE LET rest == Filter(Tail(rows), {i - 1 : i \in keep \ {1}})
         IN IF 1 \in keep THEN <<Head(rows)>> \o rest ELSE rest

(***************************************************************************)
(* load_data                                                               *)
(***************************************************************************)
NotTotal(r) == r.State # Str("Total")
CleanName(r) == [r EXCEPT !.State = str_replace_Telangana(str_strip(r.State))]

\* The .str accessor needs an object column: a non-empty column whose names
\* are all missing is read as float64 and .str raises AttributeError, which
\* load_data catches, returning None.
StrAccessorFails(rows) == rows # <<>> /\ \A i \in 1..Len(rows) : rows[i].State.na

LoadedTable(rows) ==
    LET kept == Filter(rows, {i \in 1..Len(rows) : NotTotal(rows[i])})
    IN [i \in 1..Len(kept) |-> CleanName(kept[i])]

load_data ==
    /\ pc = "read"
    /\ IF StrAccessorFails(csv)
       THEN /\ df' = <<>>
            /\ pc' = "done"
            /\ error' = error \cup {"load_data"}
       ELSE /\ df' = LoadedTable(csv)
            /\ pc' = "sidebar"
            /\ error' = error
    /\ UNCHANGED <<stats, yearly_totals, yoy_change, trend_insight, jk_data>>
    /\ UNCHANGED <<csv, selected_year, df_copy, map_data, insight_regions,
                   highest_region, regional_data, regional_stats>>

\* st.selectbox('Select Year', years)
SelectYear ==
    /\ pc = "sidebar"
    /\ \E y \in years : selected_year' = y
    /\ pc' = "statistics"
    /\ UNCHANGED <<stats, yearly_totals, yoy_change, trend_insight, jk_data>>
    /\ UNCHANGED <<csv, df, df_copy, map_data, insight_regions, highest_region,
                   regional_data, regional_stats, error>>

\* calculate_statistics: max_state is .iloc[0] of the rows holding the maximum;
\* with no present value in the column the maximum is NaN, no row equals it and
\* .iloc[0] raises IndexError, which the handler around main() reports.
NoValue(rows, y) == \A i \in 1..Len(rows) : isna(rows[i].vals[y])

calculate_statistics ==
    /\ pc = "statistics"
    /\ IF NoValue(df, selected_year)
       THEN /\ pc' = "done"
            /\ error' = error \cup {"calculate_statistics"}
            /\ stats' = stats
       ELSE /\ pc' = "trend"
            /\ error' = error
            \* line 502: total_deaths = year_data.sum()
            /\ stats' = [total |-> SumSkipNa(Column(df, selected_year))]
    /\ UNCHANGED <<yearly_totals, yoy_change, trend_insight, jk_data>>
    /\ UNCHANGED <<csv, df, selected_year, df_copy, map_data, insight_regions,
                   highest_region, regional_data, regional_stats>>

(***************************************************************************)
(* create_trend_analysis                                                   *)
(***************************************************************************)
\* Line 436: the year columns, in order.
trend_years == <<2018, 2019, 2020>>

\* Lines 439-441: yearly_totals, one df[year].sum() per year column.
YearlyTotals(rows) ==
    [i \in 1..Len(trend_years) |-> SumSkipNa(Column(rows, trend_years[i]))]

\* Lines 445-447: change = ((t[i] - t[i-1]) / t[i-1]) * 100, kept as the
\* quotient <<t[i] - t[i-1], t[i-1]>>; the totals are numpy numbers, so a zero
\* divisor gives inf or nan and no exception.
YoyChange(totals) ==
    [i \in 1..(Len(totals) - 1) |->
        Quotient(totals[i + 1] - totals[i], totals[i])]

create_trend_analysis ==
    /\ pc = "trend"
    /\ yearly_totals' = YearlyTotals(df)
    /\ yoy_change' = YoyChange(yearly_totals')
    /\ pc' = "insights"
    /\ UNCHANGED <<trend_insight, stats, jk_data>>
    /\ UNCHANGED <<csv, df, selected_year, df_copy, map_data, insight_regions,
                   highest_region, regional_data, regional_stats, error>>

(***************************************************************************)
(* generate_insights (the trend and the regional part)                     *)
(***************************************************************************)
\* f"{abs(q * 100):.1f}": "inf" or "nan" for a zero divisor, else the number
\* rounded to one decimal (a tie goes to the even digit), held in tenths of a
\* percent.
OneDecimal(q) ==
    LET n == IF q[1] < 0 THEN -q[1] ELSE q[1]
        d == q[2]
    IN IF d = 0
       THEN [text |-> IF n = 0 THEN "nan" ELSE "inf", tenths |-> 0]
       ELSE LET f == (1000 * n) \div d
                r == (1000 * n) % d
            IN [text |-> "number",
                tenths |-> IF 2 * r > d \/ (2 * r = d /\ f % 2 = 1)
                           THEN f + 1 ELSE f]

\* Lines 534-539: latest_change > 0 (false for nan) picks the sentence.
TrendInsight(latest_change) ==
    IF latest_change[1] > 0 /\ latest_change[2] >= 0
    THEN [kind |-> "Concerning Trend", percent |-> OneDecimal(latest_change),
          direction |-> "increase from previous year"]
    ELSE [kind |-> "Positive Trend", percent |-> OneDecimal(latest_change),
          direction |-> "decrease from previous year"]

north_states == {"Punjab", "Haryana", "Himachal Pradesh", "Uttaranchal",
                 "Uttar Pradesh", "Delhi", "Jammu & Kashmir", "Chandigarh"}
south_states == {"Karnataka", "Tamil Nadu", "Andhra Pradesh", "Telangana",
                 "Kerala", "Goa"}
east_states == {"West Bengal", "Orissa", "Bihar", "Jharkhand", "Assam"}
west_states == {"Maharashtra", "Gujarat", "Rajasthan", "Madhya Pradesh",
                "Chhattisgarh"}

\* Keys of the regional_data dict of generate_insights, in insertion order.
insight_zones == <<"North India", "South India", "East India", "West India">>

insight_states(zone) ==
    CASE zone = "North India" -> north_states
      [] zone = "South India" -> south_states
      [] zone = "East India" -> east_states
      [] zone = "West India" -> west_states

\* A zone total that adds the cells of every year column.
ZoneTotal_all_years(rows, states, y) ==
    LET InZone(r) == isin(r.State, states)
        sel == Filter(rows, {i \in 1..Len(rows) : InZone(rows[i])})
        RECURSIVE AllYears(_)
        AllYears(Y) == IF Y = {} THEN 0
                       ELSE LET z == CHOOSE z \in Y : TRUE
                            IN SumSkipNa(Column(sel, z)) + AllYears(Y \ {z})
    IN AllYears(years)

\* A zone total whose mask is inverted: the rows outside the zone are added.
ZoneTotal_complement(rows, states, y) ==
    LET OutOfZone(r) == ~isin(r.State, states)
    IN SumSkipNa(Column(Filter(rows, {i \in 1..Len(rows) : OutOfZone(rows[i])}), y))

\* df[df['State'].isin(states)][str(year)].sum()
ZoneTotal(rows, states, y) ==
    LET InZone(r) == isin(r.State, states)
    IN SumSkipNa(Column(Filter(rows, {i \in 1..Len(rows) : InZone(rows[i])}), y))

RECURSIVE max_key_last(_, _, _)
\* A maximum search that also replaces the running best on an equal key.
max_key_last(rest, f, best) ==
    IF rest = <<>> THEN best
    ELSE max_key_last(Tail(rest), f,
                      IF f[Head(rest)] >= f[best] THEN Head(rest) ELSE best)

RECURSIVE max_key(_, _, _)
\* max(iterable, key=f): the running best is replaced only by a strictly
\* greater key.
max_key(rest, f, best) ==
    IF rest = <<>> THEN best
    ELSE max_key(Tail(rest), f,
                 IF f[Head(rest)] > f[best] THEN Head(rest) ELSE best)

generate_insights ==
    /\ pc = "insights"
    /\ LET totals == [z \in {insight_zones[i] : i \in 1..Len(insight_zones)} |->
                         ZoneTotal(df, insight_states(z), selected_year)]
       IN /\ insight_regions' = totals
          /\ highest_region' = max_key(Tail(insight_zones), totals, Head(insight_zones))
    \* lines 533-539
    /\ trend_insight' = IF Len(yoy_change) > 0
                        THEN TrendInsight(yoy_change[Len(yoy_change)])
                        ELSE <<>>
    /\ pc' = "map"
    /\ UNCHANGED <<stats, yearly_totals, yoy_change, jk_data>>
    /\ UNCHANGED <<csv, df, selected_year, df_copy, map_data, regional_data,
                   regional_stats, error>>

(***************************************************************************)
(* prepare_map_data                                                        *)
(***************************************************************************)
\* A lookup that finds the key but does not apply the table.
map_state_mapping_identity(n) ==
    IF isin(n, DOMAIN state_mapping) THEN n ELSE NoName

\* Series.map(state_mapping) on one element: the value of the key that equals
\* the whole string, NaN when there is none.
map_state_mapping(n) ==
    IF isin(n, DOMAIN state_mapping) THEN Str(state_mapping[n.core]) ELSE NoName

\* State_Mapped without lines 155-158: an unmapped name stays NaN.
StateMapped_no_fallback(n) == map_state_mapping(n)

\* Lines 152-158: State_Mapped, with the original name where the map gave NaN.
StateMapped(n) ==
    LET m == map_state_mapping(n) IN IF m.na THEN n ELSE m

WithStateMapped(rows) ==
    [i \in 1..Len(rows) |->
        [idx |-> rows[i].idx, State |-> rows[i].State, vals |-> rows[i].vals,
         State_Mapped |-> StateMapped(rows[i].State)]]

\* Lines 161-166: the base map data.
BaseMapData(rows, y) ==
    [i \in 1..Len(rows) |->
        [idx |-> rows[i].idx, State |-> rows[i].State_Mapped,
         Original_State |-> rows[i].State, Deaths |-> rows[i].vals[y], Year |-> y]]

\* Line 170.
JkRow(rows) ==
    LET IsJk(r) == str_contains_Jammu(r.State) IN Filter(rows, {i \in 1..Len(rows) : IsJk(rows[i])})

\* No emptiness test before jk_row[...].iloc[0].
JkRowFound_unguarded(jk_row) == TRUE

\* Line 171: `if not jk_row.empty`.
JkRowFound(jk_row) == jk_row # <<>>

\* Replicated rows whose absent value is filled with 0.
JkData_filled(jk_deaths, y) ==
    LET v == IF isna(jk_deaths) THEN <<0>> ELSE jk_deaths
    IN << [State |-> Str("Jammu & Kashmir"), Original_State |-> Str("Jammu & Kashmir"),
           Deaths |-> v, Year |-> y],
          [State |-> Str("Ladakh"), Original_State |-> Str("Jammu & Kashmir (Ladakh area)"),
           Deaths |-> v, Year |-> y] >>

\* Lines 176-181.
JkData(jk_deaths, y) ==
    << [State |-> Str("Jammu & Kashmir"), Original_State |-> Str("Jammu & Kashmir"),
        Deaths |-> jk_deaths, Year |-> y],
       [State |-> Str("Ladakh"), Original_State |-> Str("Jammu & Kashmir (Ladakh area)"),
        Deaths |-> jk_deaths, Year |-> y] >>

\* The base rows are kept as they are: the matching rows are not removed.
WithoutJk_keep(rows) == rows

\* Line 184.
WithoutJk(rows) ==
    LET NotJk(r) == ~str_contains_Jammu(r.Original_State)
    IN Filter(rows, {i \in 1..Len(rows) : NotJk(rows[i])})

\* pd.concat([b, a], ignore_index=True): the rows of b come first.
ConcatIgnoreIndex_front(a, b) ==
    LET all == b \o [i \in 1..Len(a) |-> [State |-> a[i].State,
                                          Original_State |-> a[i].Original_State,
                                          Deaths |-> a[i].Deaths, Year |-> a[i].Year]]
    IN [i \in 1..Len(all) |->
           [idx |-> i - 1, State |-> all[i].State,
            Original_State |-> all[i].Original_State,
            Deaths |-> all[i].Deaths, Year |-> all[i].Year]]

\* pd.concat([a, b], ignore_index=True): the rows of a then those of b,
\* relabelled 0, 1, 2, ...
ConcatIgnoreIndex(a, b) ==
    LET all == [i \in 1..Len(a) |-> [State |-> a[i].State,
                                     Original_State |-> a[i].Original_State,
                                     Deaths |-> a[i].Deaths, Year |-> a[i].Year]] \o b
    IN [i \in 1..Len(all) |->
           [idx |-> i - 1, State |-> all[i].State,
            Original_State |-> all[i].Original_State,
            Deaths |-> all[i].Deaths, Year |-> all[i].Year]]

\* No dropna: rows without a value stay.
dropna_none(rows) == rows

\* Line 188: map_data.dropna(subset=['Deaths']).
dropna_Deaths(rows) ==
    LET HasDeaths(r) == ~isna(r.Deaths) IN Filter(rows, {i \in 1..Len(rows) : HasDeaths(rows[i])})

\* The caller's table when the function works on the alias df_copy = df:
\* the added column shows in it.
CallerTable_aliased(rows, changed) == changed

\* Line 151: df_copy = df.copy(); the column is added to the copy and the
\* caller's table keeps its rows.
CallerTable(rows, changed) == rows

\* The value of the last matching row: jk_row[str(year)].iloc[-1].
JkDeaths_last(jk_row, y) == jk_row[Len(jk_row)].vals[y]

\* Line 172: jk_deaths = jk_row[str(year)].iloc[0].
JkDeaths(jk_row, y) == jk_row[1].vals[y]

\* Lines 168-181: the replicated rows, <<>> when no row matches (or when
\* reading the first matching value raises).
ReplicatedRows(rows, y) ==
    LET jk_row == JkRow(rows)
    IN IF JkRowFound(jk_row) /\ jk_row # <<>>
       THEN JkData(JkDeaths(jk_row, y), y)
       ELSE <<>>

\* jk_row[str(year)].iloc[0] on an empty selection raises IndexError.
Raises(rows) == JkRowFound(JkRow(rows)) /\ JkRow(rows) = <<>>

\* Lines 150-190: the table prepare_map_data(df, year) returns (<<>> stands
\* for no table when the call raises).
MapDataOf(rows, y) ==
    LET copy == WithStateMapped(rows)
        base == BaseMapData(copy, y)
    IN IF Raises(copy) THEN <<>>
       ELSE IF JkRowFound(JkRow(copy))
            THEN dropna_Deaths(ConcatIgnoreIndex(WithoutJk(base),
                                                 ReplicatedRows(copy, y)))
            ELSE dropna_Deaths(base)

\* create_india_map calls prepare_map_data; an exception raised there is
\* caught by the try of main (lines 766-770), which goes on to the tabs.
prepare_map_data ==
    /\ pc = "map"
    /\ LET copy == WithStateMapped(df)
       IN /\ df_copy' = copy
          /\ df' = CallerTable(df, copy)
          /\ jk_data' = ReplicatedRows(copy, selected_year)
          /\ map_data' = MapDataOf(df, selected_year)
          /\ error' = IF Raises(copy) THEN error \cup {"prepare_map_data"}
                      ELSE error
    /\ pc' = "regional"
    /\ UNCHANGED <<csv, selected_year, stats, yearly_totals, yoy_change,
                   trend_insight, insight_regions, highest_region,
                   regional_data, regional_stats>>

(***************************************************************************)
(* create_regional_analysis and the regional statistics table of main      *)
(***************************************************************************)
\* Keys of the regions dict (lines 567-573 and 805-811), in insertion order.
region_names == <<"North India", "South India", "East India", "West India",
                  "Islands & Others">>

\* A zone table in which 'Kerala' is listed under two zones.
regions_overlapping(zone) ==
    CASE zone = "North India" ->
           {"Punjab", "Haryana", "Himachal Pradesh", "Uttaranchal",
            "Uttar Pradesh", "Delhi", "Jammu & Kashmir", "Chandigarh"}
      [] zone = "South India" ->
           {"Karnataka", "Tamil Nadu", "Andhra Pradesh", "Telangana", "Kerala",
            "Goa"}
      [] zone = "East India" ->
           {"West Bengal", "Orissa", "Bihar", "Jharkhand", "Assam", "Tripura",
            "Meghalaya", "Manipur", "Mizoram", "Nagaland", "Arunachal Pradesh",
            "Sikkim"}
      [] zone = "West India" ->
           {"Maharashtra", "Gujarat", "Rajasthan", "Madhya Pradesh",
            "Chhattisgarh", "Daman", "Dadra & Nagar Haveli", "Kerala"}
      [] zone = "Islands & Others" ->
           {"Lakshadweep", "Andaman & Nicobar Islands", "Pondicherry"}

\* Lines 567-573 (and the same literal at lines 806-812).
regions(zone) ==
    CASE zone = "North India" ->
           {"Punjab", "Haryana", "Himachal Pradesh", "Uttaranchal",
            "Uttar Pradesh", "Delhi", "Jammu & Kashmir", "Chandigarh"}
      [] zone = "South India" ->
           {"Karnataka", "Tamil Nadu", "Andhra Pradesh", "Telangana", "Kerala",
            "Goa"}
      [] zone = "East India" ->
           {"West Bengal", "Orissa", "Bihar", "Jharkhand", "Assam", "Tripura",
            "Meghalaya", "Manipur", "Mizoram", "Nagaland", "Arunachal Pradesh",
            "Sikkim"}
      [] zone = "West India" ->
           {"Maharashtra", "Gujarat", "Rajasthan", "Madhya Pradesh",
            "Chhattisgarh", "Daman", "Dadra & Nagar Haveli"}
      [] zone = "Islands & Others" ->
           {"Lakshadweep", "Andaman & Nicobar Islands", "Pondicherry"}

create_regional_analysis ==
    /\ pc = "regional"
    /\ regional_data' =
           [i \in 1..Len(region_names) |->
               [Region |-> region_names[i],
                Deaths |-> ZoneTotal(df, regions(region_names[i]), selected_year)]]
    /\ pc' = "table"
    /\ UNCHANGED <<stats, yearly_totals, yoy_change, trend_insight, jk_data>>
    /\ UNCHANGED <<csv, df, selected_year, df_copy, map_data, insight_regions,
                   highest_region, regional_stats, error>>

\* len([s for s in states if s in df['State'].values])
NumStates(rows, states) ==
    Cardinality({s \in states : \E i \in 1..Len(rows) : rows[i].State = Str(s)})

\* format_number: "N/A" for NaN, else int(num) printed with commas; num is a
\* quotient of non-negative integers and int() drops its fraction.
format_number(num) == IF isna(num) THEN "N/A" ELSE num[1] \div num[2]

\* Lines 813-824: one row of the table per zone.
RegionalStatsRow(rows, zone, y) ==
    LET total_deaths == ZoneTotal(rows, regions(zone), y)
        num_states == NumStates(rows, regions(zone))
        avg_deaths == IF num_states > 0 THEN Quotient(total_deaths, num_states)
                      ELSE Quotient(0, 1)
    IN [Region |-> zone,
        Total |-> format_number(Quotient(total_deaths, 1)),
        Number |-> num_states,
        Average |-> format_number(avg_deaths)]

regional_statistics ==
    /\ pc = "table"
    /\ regional_stats' =
           [i \in 1..Len(region_names) |->
               RegionalStatsRow(df, region_names[i], selected_year)]
    /\ pc' = "done"
    /\ UNCHANGED <<stats, yearly_totals, yoy_change, trend_insight, jk_data>>
    /\ UNCHANGED <<csv, df, selected_year, df_copy, map_data, insight_regions,
                   highest_region, regional_data, error>>

(***************************************************************************)
(* Specifications                                                          *)
(***************************************************************************)
\* Names of the tables of Spec: a state of each kind the dashboard handles.
TableNames ==
    {Str("Jammu & Kashmir"), Str("Jammu and Kashmir"), Str("Orissa"),
     Str("Kerala"), Str("Unknown Territory"), NoName}

\* Names of the one-row tables of SpecNames: every key of state_mapping and
\* the other names, with blanks around them, and the missing name.
AllCores == DOMAIN state_mapping \cup OtherCores
RawNames ==
    {Padded(s, a, b) : s \in AllCores, a \in 0..MaxPad, b \in 0..MaxPad}
        \cup {NoName}

\* Names of the tables of SpecYears: an alias and a plain name of two zones.
ZoneNames == {Str("Orissa"), Str("Kerala")}

\* Names of the tables of SpecOrder: the two spellings that match the split
\* pattern and two names that do not, one of them 'Ladakh'.
OrderNames ==
    {Str("Jammu & Kashmir"), Str("Jammu and Kashmir"), Str("Kerala"),
     Str("Ladakh")}

\* The cells of a row: any values, values in the 2018 column only, or values
\* in the 2018 and 2019 columns only.
AnyCells == [years -> Vals]
FirstColumnOnly == {c \in AnyCells : \A y \in years \ {2018} : isna(c[y])}
TwoColumns == {c \in AnyCells : \A y \in years \ {2018, 2019} : isna(c[y])}

\* pd.read_csv parses one more line of the file: the row gets the next index
\* label and its name is one of Names.
read_csv(Names, Cells, max_rows) ==
    /\ pc = "read"
    /\ Len(csv) < max_rows
    /\ \E name \in Names, cells \in Cells :
           csv' = Append(csv, [idx |-> Len(csv), State |-> name, vals |-> cells])
    /\ UNCHANGED <<stats, yearly_totals, yoy_change, trend_insight, jk_data>>
    /\ UNCHANGED <<df, pc, selected_year, df_copy, map_data, insight_regions,
                   highest_region, regional_data, regional_stats, error>>

Init ==
    /\ csv = <<>>
    /\ df = <<>>
    /\ pc = "read"
    /\ selected_year = 2024      \* the default of the selectbox (line 626)
    /\ df_copy = <<>>
    /\ map_data = <<>>
    /\ jk_data = <<>>
    /\ stats = <<>>
    /\ yearly_totals = <<>>
    /\ yoy_change = <<>>
    /\ trend_insight = <<>>
    /\ insight_regions = <<>>
    /\ highest_region = ""
    /\ regional_data = <<>>
    /\ regional_stats = <<>>
    /\ error = {}

Pipeline ==
    \/ load_data
    \/ SelectYear
    \/ calculate_statistics
    \/ create_trend_analysis
    \/ generate_insights
    \/ prepare_map_data
    \/ create_regional_analysis
    \/ regional_statistics

\* Tables of up to MaxRows rows over TableNames, with values in the 2018
\* column only.
Next == read_csv(TableNames, FirstColumnOnly, MaxRows) \/ Pipeline

\* One-row tables over RawNames, with any values in the year columns.
NextNames == read_csv(RawNames, AnyCells, 1) \/ Pipeline

\* Tables of up to MaxRows rows over ZoneNames, with any values in the first
\* two year columns.
NextYears == read_csv(ZoneNames, TwoColumns, MaxRows) \/ Pipeline

\* Tables of up to MaxRows + 1 rows over OrderNames, with values in the 2018
\* column only.
NextOrder == read_csv(OrderNames, FirstColumnOnly, MaxRows + 1) \/ Pipeline

Spec == Init /\ [][Next]_vars
SpecNames == Init /\ [][NextNames]_vars
SpecYears == Init /\ [][NextYears]_vars
SpecOrder == Init /\ [][NextOrder]_vars

(***************************************************************************)
(* Properties                                                              *)
(***************************************************************************)
\* How far main() has come.
TableDone == pc = "done" /\ regional_stats # <<>>
RegionalDone == pc = "table" \/ TableDone
MapPrepared == pc = "regional" \/ RegionalDone
InsightsDone == pc = "map" \/ MapPrepared

Rows(t) == 1..Len(t)
RECURSIVE SumOver(_, _)
SumOver(S, f) ==
    IF S = {} THEN 0
    ELSE LET x == CHOOSE x \in S : TRUE IN f[x] + SumOver(S \ {x}, f)

\* Rows of the loaded table that match the split pattern, and the rows of the
\* output that carry a name matching it.
JkIn == {i \in Rows(df) : str_contains_Jammu(df[i].State)}
JkOut == {k \in Rows(map_data) : str_contains_Jammu(map_data[k].Original_State)}
FirstJk == CHOOSE i \in JkIn : \A j \in JkIn : i <= j

\* The output holds, as its rows matching the pattern, exactly the two
\* replicated rows, each with the value v.
TwoReplicas(v) ==
    /\ Cardinality(JkOut) = 2
    /\ \E k \in JkOut :
          /\ k + 1 \in JkOut
          /\ map_data[k].State = Str("Jammu & Kashmir")
          /\ map_data[k + 1].State = Str("Ladakh")
          /\ map_data[k].Deaths = v
          /\ map_data[k + 1].Deaths = v
          /\ map_data[k].Year = selected_year
          /\ map_data[k + 1].Year = selected_year

\* C1 as stated: for every record of the table that matches the split
\* pattern, the output holds exactly two replicated records ('Jammu & Kashmir'
\* and 'Ladakh') in place of it, each carrying the value of that record.
C1_Original ==
    MapPrepared =>
        \A i \in JkIn : TwoReplicas(df[i].vals[selected_year])

\* C1 amended: when some record matches the split pattern, every matching
\* record is removed and the output holds exactly two replicated records
\* ('Jammu & Kashmir', 'Ladakh') carrying the value of the FIRST matching
\* record, provided that value is present; when it is absent the output holds
\* no record matching the pattern.
C1_SplitReplicatesFirst ==
    (MapPrepared /\ JkIn # {}) =>
        LET v == df[FirstJk].vals[selected_year]
        IN IF isna(v) THEN JkOut = {} ELSE TwoReplicas(v)

\* Two matching records with different values, the first one present.
C1_Witness ==
    /\ MapPrepared
    /\ Cardinality(JkIn) = 2
    /\ \E i, j \in JkIn : df[i].vals[selected_year] # df[j].vals[selected_year]
    /\ ~isna(df[FirstJk].vals[selected_year])
    /\ Cardinality(JkOut) = 2

\* C2: the canonical id of every record is the value of state_mapping when
\* the name is a key of the table and the name itself when it is not; a record
\* with an unknown name, a present value and no match of the split pattern is
\* in the output under its own name.
C2_AliasOrPassThrough ==
    MapPrepared =>
        \A i \in Rows(df_copy) :
            LET n == df_copy[i].State
                known == ~n.na /\ n.pre = 0 /\ n.post = 0 /\ n.core \in state_mapping_keys
            IN /\ known => df_copy[i].State_Mapped = Str(state_mapping[n.core])
               /\ ~known => df_copy[i].State_Mapped = n
               /\ (~known /\ ~str_contains_Jammu(n)
                          /\ ~isna(df_copy[i].vals[selected_year])) =>
                    \E k \in Rows(map_data) :
                        /\ map_data[k].State = n
                        /\ map_data[k].Original_State = n
                        /\ map_data[k].Deaths = df_copy[i].vals[selected_year]
               /\ (n = Str("Orissa")) => df_copy[i].State_Mapped = Str("Odisha")

\* 'Orissa' has become 'Odisha', or 'Unknown Territory' is in the output.
C2_Witness ==
    /\ MapPrepared
    /\ \E k \in Rows(map_data) :
          \/ /\ map_data[k].Original_State = Str("Orissa")
             /\ map_data[k].State = Str("Odisha")
          \/ map_data[k].State = Str("Unknown Territory")

\* Rows of the loaded table with a present value that do not match the split
\* pattern.
PresentPlain ==
    {i \in Rows(df) : ~isna(df[i].vals[selected_year]) /\ i \notin JkIn}

\* C3: a record whose value is absent for the requested year gives no output
\* record (the output holds one record per present non-matching record, the
\* two replicated records when the first matching value is present, and no
\* record without a value), and it adds nothing to a zone total: each total
\* is the sum of the present values of the zone's rows.
C3_AbsentContributesNothing ==
    /\ MapPrepared =>
          /\ \A k \in Rows(map_data) : ~isna(map_data[k].Deaths)
          /\ Len(map_data) = Cardinality(PresentPlain)
                + (IF JkIn # {} /\ ~isna(df[FirstJk].vals[selected_year])
                   THEN 2 ELSE 0)
          /\ \A i \in Rows(df) :
                (isna(df[i].vals[selected_year]) /\ i \notin JkIn) =>
                    Cardinality({k \in Rows(map_data) :
                                    map_data[k].Original_State = df[i].State})
                      = Cardinality({j \in PresentPlain : df[j].State = df[i].State})
    /\ RegionalDone =>
          \A z \in Rows(regional_data) :
              LET members == {i \in Rows(df) :
                                 /\ isin(df[i].State, regions(region_names[z]))
                                 /\ ~isna(df[i].vals[selected_year])}
              IN regional_data[z].Deaths =
                    SumOver(members, [i \in members |-> df[i].vals[selected_year][1]])
    /\ InsightsDone =>
          \A z \in DOMAIN insight_regions :
              LET members == {i \in Rows(df) :
                                 /\ isin(df[i].State, insight_states(z))
                                 /\ ~isna(df[i].vals[selected_year])}
              IN insight_regions[z] =
                    SumOver(members, [i \in members |-> df[i].vals[selected_year][1]])

\* A record of a zone without a value, beside a record with one.
C3_Witness ==
    /\ RegionalDone
    /\ \E i \in Rows(df) :
          /\ isna(df[i].vals[selected_year])
          /\ isin(df[i].State, regions("South India"))
    /\ map_data # <<>>

\* Sum of the selected year's present values of the loaded rows whose name,
\* as loaded, is one of `states`.
LoadedSum(states) ==
    LET members == {i \in Rows(df) : /\ isin(df[i].State, states)
                                     /\ ~isna(df[i].vals[selected_year])}
    IN SumOver(members, [i \in members |-> df[i].vals[selected_year][1]])

\* Sum of the values of the normalized records (the output of
\* prepare_map_data) of the selected year whose canonical id is one of `states`.
NormalizedSum(states) ==
    LET members == {k \in Rows(map_data) : /\ isin(map_data[k].State, states)
                                           /\ map_data[k].Year = selected_year}
    IN SumOver(members, [k \in members |-> map_data[k].Deaths[1]])

\* C4 as stated: every zone total equals the sum of the values of the
\* normalized records of the requested year whose canonical region id is in
\* the zone's member list.
C4_Original ==
    RegionalDone =>
        /\ \A z \in Rows(regional_data) :
              regional_data[z].Deaths = NormalizedSum(regions(region_names[z]))
        /\ \A z \in DOMAIN insight_regions :
              insight_regions[z] = NormalizedSum(insight_states(z))

\* C4 amended: every zone total equals the sum, over the records of the
\* loaded table whose region name as loaded (trimmed, not canonicalised) is in
\* the zone's member list, of the value in the requested year's column; the
\* values of other years and the records outside the list do not enter it.
C4_ZoneTotalOverLoadedNames ==
    /\ InsightsDone =>
          \A z \in DOMAIN insight_regions :
              insight_regions[z] = LoadedSum(insight_states(z))
    /\ RegionalDone =>
          \A z \in Rows(regional_data) :
              /\ regional_data[z].Region = region_names[z]
              /\ regional_data[z].Deaths = LoadedSum(regions(region_names[z]))
    /\ TableDone =>
          \A z \in Rows(regional_stats) :
              regional_stats[z].Total = LoadedSum(regions(region_names[z]))

\* 'Orissa' and 'Kerala' with values, 'Orissa' with another value in the other
\* year: East India is the value of 'Orissa' in the selected year.
C4_Witness ==
    /\ RegionalDone
    /\ Len(df) = 2
    /\ df[1].State = Str("Kerala")
    /\ df[2].State = Str("Orissa")
    /\ \A y \in {2018, 2019} : ~isna(df[1].vals[y]) /\ ~isna(df[2].vals[y])
    /\ \E y \in {2018, 2019} : df[2].vals[y] # df[2].vals[selected_year]
    /\ df[2].vals[selected_year][1] > 0
    /\ regional_data[3].Deaths = df[2].vals[selected_year][1]

\* C5: normalising the canonical id of a key of state_mapping again (lookup
\* with pass-through) gives that canonical id.
C5_NormalizationIdempotent ==
    MapPrepared =>
        \A i \in Rows(df_copy) :
            isin(df_copy[i].State, state_mapping_keys) =>
                StateMapped(df_copy[i].State_Mapped) = df_copy[i].State_Mapped

\* An alias whose canonical id is not a key: 'Uttaranchal' -> 'Uttarakhand'.
C5_Witness ==
    /\ MapPrepared
    /\ \E i \in Rows(df_copy) :
          /\ df_copy[i].State = Str("Uttaranchal")
          /\ df_copy[i].State_Mapped = Str("Uttarakhand")

\* C6 as stated: the canonical id of every key of state_mapping is itself a
\* key of the table, mapped to itself.
C6_Original ==
    MapPrepared =>
        \A i \in Rows(df_copy) :
            isin(df_copy[i].State, state_mapping_keys) =>
                /\ isin(df_copy[i].State_Mapped, state_mapping_keys)
                /\ map_state_mapping(df_copy[i].State_Mapped) = df_copy[i].State_Mapped

\* C6 amended: a canonical id that occurs as a value of state_mapping and is
\* also a key of the table is mapped to itself; the canonical ids that are
\* not keys ('Odisha', 'Uttarakhand', 'Puducherry', 'Andaman & Nicobar',
\* 'Dadra and Nagar Haveli and Daman and Diu') have no entry.
C6_CanonicalKeysAreIdentity ==
    MapPrepared =>
        \A i \in Rows(df_copy) :
            (/\ isin(df_copy[i].State, state_mapping_keys)
             /\ isin(df_copy[i].State_Mapped, state_mapping_keys)) =>
                state_mapping[df_copy[i].State_Mapped.core] = df_copy[i].State_Mapped.core

\* The alias 'Jammu and Kashmir': its canonical id is a key.
C6_Witness ==
    /\ MapPrepared
    /\ \E i \in Rows(df_copy) :
          /\ df_copy[i].State = Str("Jammu and Kashmir")
          /\ df_copy[i].State_Mapped = Str("Jammu & Kashmir")
          /\ state_mapping["Jammu & Kashmir"] = "Jammu & Kashmir"

\* The name of row r of the loaded table as the file holds it.
RawNameOf(r) == csv[r.idx + 1].State

\* C7: the blanks around a raw region name are gone before the alias lookup:
\* a name of the file resolves to the canonical id of its trimmed form, which
\* is the value of state_mapping when the trimmed form is a key.
C7_StripBeforeLookup ==
    MapPrepared =>
        \A i \in Rows(df_copy) :
            LET raw == RawNameOf(df_copy[i])
                trimmed == Str(raw.core)
            IN ~raw.na =>
                /\ df_copy[i].State_Mapped = StateMapped(str_replace_Telangana(trimmed))
                /\ raw.core \in state_mapping_keys =>
                      df_copy[i].State_Mapped = Str(state_mapping[raw.core])

\* 'Telangana ' and ' Orissa' of the file.
C7_Witness ==
    /\ MapPrepared
    /\ \E i \in Rows(df_copy) :
          \/ /\ RawNameOf(df_copy[i]) = Padded("Telangana", 0, 1)
             /\ df_copy[i].State_Mapped = Str("Telangana")
          \/ /\ RawNameOf(df_copy[i]) = Padded("Orissa", 1, 0)
             /\ df_copy[i].State_Mapped = Str("Odisha")

C9_FirstMaxZone ==
    InsightsDone =>
        \E i \in Rows(insight_zones) :
            /\ highest_region = insight_zones[i]
            /\ \A j \in Rows(insight_zones) :
                  insight_regions[insight_zones[j]] <= insight_regions[insight_zones[i]]
            /\ \A j \in 1..(i - 1) :
                  insight_regions[insight_zones[j]] < insight_regions[insight_zones[i]]
            /\ insight_zones = <<"North India", "South India", "East India",
                                 "West India">>

\* South and East share the maximum, above North: South is reported.
C9_Witness ==
    /\ InsightsDone
    /\ insight_regions["South India"] = insight_regions["East India"]
    /\ insight_regions["South India"] > insight_regions["North India"]
    /\ highest_region = "South India"

\* C9, the all-zero case: North is reported.
C9_WitnessAllZero ==
    /\ InsightsDone
    /\ \A z \in DOMAIN insight_regions : insight_regions[z] = 0
    /\ highest_region = "North India"

\* C10: a zone none of whose members has a present value in the table has
\* the total 0, in the chart data and in the statistics table, where its
\* average is 0 when no member occurs; nothing is raised.
C10_EmptyZoneIsZero ==
    /\ RegionalDone =>
          \A z \in Rows(regional_data) :
              (\A i \in Rows(df) :
                  isin(df[i].State, regions(region_names[z])) =>
                      isna(df[i].vals[selected_year]))
                => regional_data[z].Deaths = 0
    /\ TableDone =>
          \A z \in Rows(regional_stats) :
              /\ (\A i \in Rows(df) :
                     isin(df[i].State, regions(region_names[z])) =>
                         isna(df[i].vals[selected_year]))
                   => (regional_stats[z].Total = 0 /\ regional_stats[z].Average = 0)
              /\ (\A i \in Rows(df) : ~isin(df[i].State, regions(region_names[z])))
                   => regional_stats[z].Number = 0
    /\ RegionalDone => error = {}

\* East India has a member without a value, West India has no member, and
\* South India has a total above 0.
C10_Witness ==
    /\ TableDone
    /\ \E i \in Rows(df) : /\ df[i].State = Str("Orissa")
                           /\ isna(df[i].vals[selected_year])
    /\ regional_data[3].Deaths = 0
    /\ regional_data[4].Deaths = 0
    /\ regional_stats[3].Number = 1
    /\ regional_data[2].Deaths > 0

\* C11: prepare_map_data leaves the caller's table as load_data returned it
\* (same rows, same columns, same values), and a second call with the same
\* table and year returns the records of the first call.
C11_CallerTableUntouched ==
    MapPrepared =>
        /\ df = LoadedTable(csv)
        /\ \A i \in Rows(df) : DOMAIN df[i] = {"idx", "State", "vals"}
        /\ (error = {} => map_data = MapDataOf(df, selected_year))

\* A pass that computes canonical ids differing from the names and drops a row.
C11_Witness ==
    /\ MapPrepared
    /\ error = {}
    /\ \E i \in Rows(df_copy) : df_copy[i].State_Mapped # df_copy[i].State
    /\ Len(map_data) < Len(df)
    /\ map_data # <<>>

\* Sum of the zone totals of create_regional_analysis and of generate_insights.
RegionalSum ==
    SumOver(Rows(regional_data), [i \in Rows(regional_data) |-> regional_data[i].Deaths])
InsightSum == SumOver(DOMAIN insight_regions, insight_regions)

\* Zones of each table that list the name of row i of the loaded table.
RegionalZonesOf(i) ==
    {k \in Rows(region_names) : isin(df[i].State, regions(region_names[k]))}
InsightZonesOf(i) ==
    {k \in Rows(insight_zones) : isin(df[i].State, insight_states(insight_zones[k]))}

\* C12: in each of the two zone tables no name is listed under two zones;
\* every row of the loaded table is counted in at most one zone total of each
\* table, and the zone totals of each table add up to at most the national
\* total of the selected year (all values are non-negative).
C12_ZonesDisjoint ==
    /\ \A i, j \in Rows(region_names) :
          i # j => regions(region_names[i]) \cap regions(region_names[j]) = {}
    /\ \A i, j \in Rows(insight_zones) :
          i # j => insight_states(insight_zones[i])
                       \cap insight_states(insight_zones[j]) = {}
    /\ RegionalDone =>
          /\ \A i \in Rows(df) : Cardinality(RegionalZonesOf(i)) <= 1
          /\ \A i \in Rows(df) : Cardinality(InsightZonesOf(i)) <= 1
          /\ RegionalSum <= stats.total
          /\ InsightSum <= stats.total

\* Two rows of two different zones, both with a positive value: the zone
\* totals add up to the national total.
C12_Witness ==
    /\ RegionalDone
    /\ Len(df) = 2
    /\ RegionalZonesOf(1) # {} /\ RegionalZonesOf(2) # {}
    /\ RegionalZonesOf(1) # RegionalZonesOf(2)
    /\ stats.total = 2
    /\ RegionalSum = 2
    /\ InsightSum = 2

\* A row outside every zone: the zone totals stay below the national total.
C12_WitnessBelow ==
    /\ RegionalDone
    /\ RegionalSum < stats.total
    /\ RegionalSum > 0

\* The first matching record has no value for the selected year.
FirstJkAbsent == JkIn # {} /\ isna(df[FirstJk].vals[selected_year])

\* The split rule ran on the absent value: two replicated rows, both NaN.
ReplicasAbsent ==
    /\ Len(jk_data) = 2
    /\ jk_data[1].State = Str("Jammu & Kashmir")
    /\ jk_data[2].State = Str("Ladakh")
    /\ isna(jk_data[1].Deaths) /\ isna(jk_data[2].Deaths)

\* C13 as stated: when the first matching record has an absent value, the
\* matching records are removed, both replicated records carry the absent
\* value and the output holds neither a 'Jammu & Kashmir' nor a 'Ladakh'
\* record.
C13_Original ==
    (MapPrepared /\ FirstJkAbsent) =>
        /\ ReplicasAbsent
        /\ JkOut = {}
        /\ \A k \in Rows(map_data) :
              map_data[k].State \notin {Str("Jammu & Kashmir"), Str("Ladakh")}

\* C13 amended: when the first matching record has an absent value, the
\* matching records are removed, both replicated records carry the absent
\* value and the output holds no replicated record: no 'Jammu & Kashmir'
\* record, and as 'Ladakh' records only those of input rows that are named
\* 'Ladakh' themselves and have a value.
C13_SplitBeforeDrop ==
    (MapPrepared /\ FirstJkAbsent) =>
        /\ ReplicasAbsent
        /\ JkOut = {}
        /\ \A k \in Rows(map_data) :
              /\ map_data[k].State # Str("Jammu & Kashmir")
              /\ map_data[k].State = Str("Ladakh") =>
                    map_data[k].Original_State = Str("Ladakh")
        /\ Cardinality({k \in Rows(map_data) : map_data[k].State = Str("Ladakh")})
             = Cardinality({i \in PresentPlain : df[i].State = Str("Ladakh")})

\* An absent first matching value with a present second one and a row named
\* 'Ladakh' that has a value: the output holds that one row only.
C13_Witness ==
    /\ MapPrepared
    /\ FirstJkAbsent
    /\ \E i \in JkIn : ~isna(df[i].vals[selected_year])
    /\ \E i \in PresentPlain : df[i].State = Str("Ladakh")
    /\ Len(map_data) = 1
    /\ map_data[1].State = Str("Ladakh")

\* Rows of the output that are replicated rows, by their canonical id and
\* original name.
ReplicaOut ==
    {k \in Rows(map_data) :
        \/ /\ map_data[k].State = Str("Jammu & Kashmir")
           /\ map_data[k].Original_State = Str("Jammu & Kashmir")
        \/ /\ map_data[k].State = Str("Ladakh")
           /\ map_data[k].Original_State = Str("Jammu & Kashmir (Ladakh area)")}

\* C14: with two or more records matching the split pattern, all of them are
\* removed and one pair of replicated records ('Jammu & Kashmir', 'Ladakh')
\* is appended, both with the value of the first matching record in input
\* order; no output row comes from another matching record, so the output is
\* the present non-matching rows plus the pair (which the missing-value drop
\* removes when the first value is absent).
C14_OnePairOfFirst ==
    (MapPrepared /\ Cardinality(JkIn) >= 2) =>
        LET v == df[FirstJk].vals[selected_year]
        IN /\ Len(jk_data) = 2
           /\ jk_data[1].State = Str("Jammu & Kashmir")
           /\ jk_data[2].State = Str("Ladakh")
           /\ jk_data[1].Deaths = v /\ jk_data[2].Deaths = v
           /\ JkOut = ReplicaOut
           /\ \A k \in JkOut : map_data[k].Deaths = v
           /\ Cardinality(JkOut) = (IF isna(v) THEN 0 ELSE 2)
           /\ Len(map_data) = Cardinality(PresentPlain) + Cardinality(JkOut)

\* Both spellings present, with different present values, the second one
\* larger, beside a non-matching record with a value.
C14_Witness ==
    /\ MapPrepared
    /\ Len(df) = 3
    /\ Cardinality(JkIn) = 2
    /\ \E i, j \in JkIn :
          /\ i < j
          /\ df[i].State # df[j].State
          /\ df[i].vals[selected_year] = <<0>>
          /\ df[j].vals[selected_year] = <<1>>
    /\ Cardinality(PresentPlain) = 1
    /\ Len(map_data) = 3
    /\ \A k \in JkOut : map_data[k].Deaths = <<0>>

\* The rows of the loaded table that do not match the split pattern and have
\* a value for the selected year, in input order.
PresentPlainRows == Filter(df, PresentPlain)

\* C15: the output starts with the present non-matching records, one output
\* row per record and in input order, each with its own canonical id,
\* original name, value and year; every row after them is a replicated row.
C15_OthersKeptInOrder ==
    MapPrepared =>
        /\ Len(map_data) >= Len(PresentPlainRows)
        /\ \A k \in Rows(PresentPlainRows) :
              /\ map_data[k].State = StateMapped(PresentPlainRows[k].State)
              /\ map_data[k].Original_State = PresentPlainRows[k].State
              /\ map_data[k].Deaths = PresentPlainRows[k].vals[selected_year]
              /\ map_data[k].Year = selected_year
        /\ \A k \in Rows(map_data) :
              k > Len(PresentPlainRows) => k \in ReplicaOut

\* A matching record with a value standing before two different non-matching
\* records with different values: the output holds the two, then the pair.
C15_Witness ==
    /\ MapPrepared
    /\ Len(df) = 3
    /\ JkIn = {1}
    /\ Len(PresentPlainRows) = 2
    /\ df[2].State # df[3].State
    /\ df[2].vals[selected_year] # df[3].vals[selected_year]
    /\ Len(map_data) = 4
    /\ map_data[1].Original_State = df[2].State
    /\ map_data[2].Original_State = df[3].State
    /\ ReplicaOut = {3, 4}

\* C16 as stated: the total of each of the four cardinal zones in
\* generate_insights equals the total of the zone of the same name in
\* create_regional_analysis and in the regional statistics table of main.
C16_Original ==
    TableDone =>
        \A k \in Rows(region_names) :
            region_names[k] \in DOMAIN insight_regions =>
                /\ regional_data[k].Region = region_names[k]
                /\ regional_stats[k].Region = region_names[k]
                /\ insight_regions[region_names[k]] = regional_data[k].Deaths
                /\ insight_regions[region_names[k]] = regional_stats[k].Total

\* The national total of a year column of the loaded table.
NationalTotal(y) == SumSkipNa(Column(df, y))

\* C17 as stated: for a selected year other than the first one, the trend
\* insight reports the change from the national total of the year before the
\* selected year to the national total of the selected year.
C17_Original ==
    (InsightsDone /\ selected_year # trend_years[1]) =>
        trend_insight =
            TrendInsight(Quotient(NationalTotal(selected_year)
                                    - NationalTotal(selected_year - 1),
                                  NationalTotal(selected_year - 1)))

==============================================================================
